---- MODULE Spec2Model ----
(***************************************************************************)
(* A model of euclib's geometry primitives for the exact element type      *)
(* T = int (the typedefs point2i, rect2i, polygon2i):                      *)
(*   - point_base<T,D>          (src/point.hpp)                            *)
(*   - rect2<T>                 (src/rect.hpp)                             *)
(*   - polygon2<T> and its Graham scan (src/polygon.hpp)                   *)
(*   - the comparison helpers   (src/euclib_math.hpp)                      *)
(*                                                                         *)
(* For T = int numeric_limits gives has_infinity = false, epsilon() = 0    *)
(* and max() = 2147483647, so the sentinel `invalid` is max().             *)
(*                                                                         *)
(* A point2<T> is the tuple <<x, y>> of its m_data.  Points handed to the  *)
(* polygon are either the null point or points of a small grid; a point    *)
(* that mixes sentinel and ordinary coordinates is only studied on the     *)
(* point object itself (specification SpecPoint), because inside the hull  *)
(* builder its arithmetic overflows int.                                   *)
(***************************************************************************)
EXTENDS Integers, Sequences, FiniteSets, TLC

\* ---------------------------------------------------------------- bounds
\* coordinates of the points that are inserted: 0..MaxCoord
MaxCoord == 2
\* most arguments of one add_points call / most elements of one vector
MaxArgs  == 1
\* most points of the input sequence of the batching specification
MaxInput == 4
\* the floats compared are 0, 1.0f and the next MaxUlps floats above 1.0f
MaxUlps  == 4
\* most elements of the working set of the scan that is run step by step
MaxScan  == 4

\* ------------------------------------------------------ program constants
\* numeric_limits<int>::max(), the value of `invalid`
Sentinel  == 2147483647
\* numeric_limits<int>::epsilon()
Epsilon   == 0
\* the group size of add_points(vector)
BatchSize == 100
\* 1 / numeric_limits<float>::epsilon() = 2^23: a finite float is the
\* integer number of epsilons it is worth (8388608 is 1.0f)
EpsInv    == 8388608
\* numeric_limits<float>::infinity(), above every finite float
Infinity  == 1073741824

VARIABLES
    m_hull,            \* polygon2::m_hull of the polygon under study
    m_bounding_box,    \* polygon2::m_bounding_box of it
    crashed,           \* the process died in calc_bounding_box on an empty hull
    poly_hull,         \* m_hull of a second polygon (the operand of ==)
    poly_bounding_box, \* m_bounding_box of the second polygon
    input,             \* batching: the whole point sequence to insert
    pos,               \* batching: how many points of input were passed so far
    ncalls,            \* batching: number of add_points calls made so far
    m_data,            \* point_base::m_data of the point under study
    rect,              \* the rect2 built last
    rect_args,         \* the four constructor arguments it was built from
    args,              \* the arguments of the function under study
    result,            \* << >> before it was called, then << its return value >>
    scan_hull,         \* graham_hull: m_hull after std::sort (<< >>: no scan runs)
    scan_itr,          \* graham_hull: the position of itr in the scan loop
    scan_stack         \* graham_hull: the local vector stack

vars == << m_hull, m_bounding_box, crashed, poly_hull, poly_bounding_box,
           input, pos, ncalls, m_data, rect, rect_args,
           args, result, scan_hull, scan_itr, scan_stack >>

polyVars  == << m_hull, m_bounding_box, crashed >>
otherVars == << poly_hull, poly_bounding_box >>
batchVars == << input, pos, ncalls >>
pointVars == << m_data >>
rectVars  == << rect, rect_args >>
callVars  == << args, result >>
scanVars  == << scan_hull, scan_itr, scan_stack >>

\* ------------------------------------------------------------ value sets
Coords == 0..MaxCoord
GridPoints == { <<x, y>> : x \in Coords, y \in Coords }

\* point_base::null(): every coordinate is `invalid`
null_point == << Sentinel, Sentinel >>

\* the values a caller passes to add_points
ArgPoints == GridPoints \cup { null_point }

\* the sequences over S of length n, and of length at most n
RECURSIVE SeqsOfLen(_, _)
SeqsOfLen(S, n) ==
    IF n = 0 THEN { << >> }
    ELSE { Append(s, p) : s \in SeqsOfLen(S, n - 1), p \in S }

SeqsUpTo(S, n) == UNION { SeqsOfLen(S, k) : k \in 0..n }

\* the argument lists of one add_points call, and the vectors of one
\* add_points( vector ) call
ArgLists == SeqsUpTo(ArgPoints, MaxArgs) \ { << >> }
Vectors  == SeqsUpTo(ArgPoints, MaxArgs)

\* ------------------------------------------------- src/euclib_math.hpp
\* detail::equal, accurate_tag
equal(lhs, rhs) == lhs = rhs

\* detail::less_than, accurate_tag
less_than(lhs, rhs) == lhs < rhs

\* detail::greater_than
greater_than(lhs, rhs) == rhs < lhs

\* detail::not_equal
not_equal(lhs, rhs) == ~ (lhs = rhs)

\* detail::less_than_eq
less_than_eq(lhs, rhs) == ~ (rhs < lhs)

\* detail::greater_than_eq
greater_than_eq(lhs, rhs) == ~ (lhs < rhs)

\* std::abs
abs(x) == IF x < 0 THEN 0 - x ELSE x

\* epsilon( ) * ( abs(lhs) + abs(rhs) + 1.0 ) for finite floats, in epsilons
\* and rounded down: an integer d has d <= t exactly when d <= floor(t),
\* and d > t exactly when d > floor(t)
tolerance(lhs, rhs) == 1 + (abs(lhs) + abs(rhs)) \div EpsInv

\* detail::equal, inaccurate_tag.  With one infinite operand both sides of
\* <= are infinite and the test holds; with two, lhs - rhs is NaN and no
\* comparison with NaN holds.
equal_inaccurate(lhs, rhs) ==
    IF lhs = Infinity /\ rhs = Infinity THEN FALSE
    ELSE IF lhs = Infinity \/ rhs = Infinity THEN TRUE
    ELSE abs(lhs - rhs) <= tolerance(lhs, rhs)

\* detail::less_than, inaccurate_tag.  With an infinite operand the right
\* side of > is infinite, and nothing is greater.
less_than_inaccurate(lhs, rhs) ==
    IF lhs = Infinity \/ rhs = Infinity THEN FALSE
    ELSE rhs - lhs > tolerance(lhs, rhs)

\* the two categories of accuracy_traits<T>::category_t
Categories == { "accurate", "inaccurate" }

\* equal( lhs, rhs ), dispatched on the category of T
equal_of(category, lhs, rhs) ==
    IF category = "accurate" THEN equal(lhs, rhs) ELSE equal_inaccurate(lhs, rhs)

\* less_than( lhs, rhs ), dispatched on the category of T
less_than_of(category, lhs, rhs) ==
    IF category = "accurate" THEN less_than(lhs, rhs)
    ELSE less_than_inaccurate(lhs, rhs)

\* `invalid`: max( ) for int, infinity( ) for float
invalid(category) == IF category = "accurate" THEN Sentinel ELSE Infinity

\* the values of type T that are compared: int, float
Values(category) ==
    IF category = "accurate" THEN (0..MaxCoord) \cup { Sentinel }
    ELSE { 0 } \cup { EpsInv + j : j \in 0..MaxUlps } \cup { Infinity }

\* ------------------------------------------------------ src/point.hpp
\* point_base::operator==
point_eq(a, b) ==
    \A i \in DOMAIN a :
        \/ (a[i] = Sentinel /\ b[i] = Sentinel)
        \/ equal(a[i], b[i])

\* point_base::operator!=
point_ne(a, b) == ~ point_eq(a, b)

\* the dimensions D that point<T,D> is specialised for
Dims == 2..4

\* the coordinate values of the point under study
PointValues == Coords \cup { Sentinel }

\* point_base::set_null
point_set_null(D) == [ i \in 1..D |-> Sentinel ]

\* point_base::check_valid
point_check_valid(d) ==
    IF \E i \in DOMAIN d : d[i] = Sentinel THEN point_set_null(Len(d)) ELSE d

\* point_base::fill: the values given, then 0 up to D
fill(values, D) == [ i \in 1..D |-> IF i <= Len(values) THEN values[i] ELSE 0 ]

\* point_base::point_base( T value, Args... values )
point_base(values, D) == fill(values, D)

\* point_base::set, and the setters x( v ), y( v ), z( v ), w( v )
set(d, i, value) == [ d EXCEPT ![i] = value ]

\* point_base::operator=, copy and move: the new m_data of the target
point_assign(pt) == point_check_valid(pt)

\* point_base::dot, the loop over the coordinates i..D
RECURSIVE dot_loop(_, _, _, _)
dot_loop(a, b, i, sum) ==
    IF i > Len(a) THEN sum ELSE dot_loop(a, b, i + 1, sum + a[i] * b[i])

\* point_base::dot
dot(a, b) == dot_loop(a, b, 1, 0)

\* point<T,3>::cross: the three coordinates are stored into a default
\* constructed point, which is returned by value (copy: operator=)
cross(a, b) ==
    point_assign(<< a[2] * b[3] - a[3] * b[2],
                    a[1] * b[3] - a[3] * b[1],
                    a[1] * b[2] - a[2] * b[1] >>)

\* point_base::operator== for the element type of a category
point_eq_of(category, a, b) ==
    \A i \in DOMAIN a :
        \/ (a[i] = invalid(category) /\ b[i] = invalid(category))
        \/ equal_of(category, a[i], b[i])

\* point_base::null( ): { invalid, invalid } filled up with 0 and handed
\* out through operator=, whose check_valid makes every coordinate invalid
null_of(category, D) ==
    LET d == fill(<< invalid(category), invalid(category) >>, D)
    IN  IF \E i \in DOMAIN d : d[i] = invalid(category)
        THEN [ i \in 1..D |-> invalid(category) ]
        ELSE d

\* the coordinate values of the points that are compared: int, float
CoordValues(category) ==
    IF category = "accurate" THEN PointValues ELSE { 0, EpsInv, Infinity }

\* ------------------------------------------------------- src/rect.hpp
\* rect2::set_null (no infinity for int: every field becomes max())
rect_set_null == [ l |-> Sentinel, r |-> Sentinel, t |-> Sentinel, b |-> Sentinel ]

\* rect2::check_valid applied to the fields l, r, t, b
rect_check_valid(l, r, t, b) ==
    IF l = Sentinel \/ r = Sentinel \/ t = Sentinel \/ b = Sentinel
    THEN rect_set_null
    ELSE IF l - r >= Epsilon \/ t - b >= Epsilon
         THEN rect_set_null
         ELSE [ l |-> l, r |-> r, t |-> t, b |-> b ]

\* rect2::rect2( T left, T right, T top, T bottom )
rect2(left, right, top, bottom) == rect_check_valid(left, right, top, bottom)

\* rect2::null()
rect_null == rect2(Sentinel, Sentinel, Sentinel, Sentinel)

\* the null predicate that rect2::operator== applies to one operand
rect_is_null(a) ==
    \/ a.l = Sentinel \/ a.r = Sentinel \/ a.t = Sentinel \/ a.b = Sentinel
    \/ a.l - a.r >= Epsilon \/ a.t - a.b >= Epsilon

\* rect2::operator==
rect_eq(a, b) ==
    IF a.l = b.l /\ a.r = b.r /\ a.t = b.t /\ a.b = b.b
    THEN TRUE
    ELSE rect_is_null(a) /\ rect_is_null(b)

\* rect2::operator!=
rect_ne(a, b) == ~ rect_eq(a, b)

\* ---------------------------------------------------- src/polygon.hpp
\* polygon2::direction: the cross product (pt1-pt0) x (pt2-pt0)
direction(pt0, pt1, pt2) ==
    (pt1[1] - pt0[1]) * (pt2[2] - pt0[2]) - (pt1[2] - pt0[2]) * (pt2[1] - pt0[1])

\* segment2::length compared through its square: the length is the
\* Euclidean norm of pt2 - pt1, and for the integer coordinates of the
\* model two lengths are equal within float tolerance exactly when their
\* squares are equal
length_sq(pt1, pt2) ==
    (pt2[1] - pt1[1]) * (pt2[1] - pt1[1]) + (pt2[2] - pt1[2]) * (pt2[2] - pt1[2])

\* find_best without the comparisons: the last element visited wins
RECURSIVE find_best_last(_, _, _)
find_best_last(h, i, best) ==
    IF i > Len(h) THEN best ELSE find_best_last(h, i + 1, i)

\* graham_hull, the search for the anchor: `best` after the elements
\* i..Len(h) were visited, starting from the candidate index best
RECURSIVE find_best(_, _, _)
find_best(h, i, best) ==
    IF i > Len(h) THEN best
    ELSE IF h[best][2] - h[i][2] > Epsilon THEN find_best(h, i + 1, i)
    ELSE IF (h[i][2] - h[best][2] <= Epsilon /\ h[best][2] - h[i][2] <= Epsilon)
            /\ h[best][1] - h[i][1] > Epsilon THEN find_best(h, i + 1, i)
    ELSE find_best(h, i + 1, best)

\* the part of the circle atan2( y, x ) falls in, in ascending order of
\* the angle: (-pi, 0) below the axis, 0 on the positive x axis (and for
\* atan2( 0, 0 )), (0, pi) above the axis, pi on the negative x axis
atan2_part(x, y) ==
    IF y < 0 THEN 0
    ELSE IF y > 0 THEN 2
    ELSE IF x >= 0 THEN 1 ELSE 3

\* the comparison of ang1 = atan2( l.y - best.y, l.x - best.x ) with ang2,
\* the same of r: -1, 0 or 1 for ang1 <, =, > ang2.  Inside an open half
\* plane the angle grows with the cross product, and offsets of distinct
\* directions on the grid differ by far more than the float tolerance.
angle_cmp(best, l, r) ==
    LET lx == l[1] - best[1]
        ly == l[2] - best[2]
        rx == r[1] - best[1]
        ry == r[2] - best[2]
        pl == atan2_part(lx, ly)
        pr == atan2_part(rx, ry)
        c  == lx * ry - ly * rx
    IN  IF pl < pr THEN -1
        ELSE IF pl > pr THEN 1
        ELSE IF c > 0 THEN -1 ELSE IF c = 0 THEN 0 ELSE 1

\* graham_hull::sort_angle::operator()
sort_angle(best, l, r) ==
    IF point_eq(l, best) THEN TRUE
    ELSE IF point_eq(r, best) THEN FALSE
    ELSE LET ang == angle_cmp(best, l, r) IN
         IF ang = 0
         THEN IF equal(r[2], l[2])
              THEN greater_than(r[1], l[1])
              ELSE greater_than(r[2], l[2])
         ELSE ang = -1

\* std::sort on fewer than 16 elements is an insertion sort: the element
\* val goes in front when comp(val, first) holds, otherwise it moves left
\* past every element it compares less than
RECURSIVE linear_insert(_, _, _, _)
linear_insert(best, s, val, k) ==
    IF k >= 1 /\ sort_angle(best, val, s[k])
    THEN linear_insert(best, s, val, k - 1)
    ELSE SubSeq(s, 1, k) \o << val >> \o SubSeq(s, k + 1, Len(s))

RECURSIVE insertion_sort(_, _, _)
insertion_sort(best, h, i) ==
    IF i > Len(h) THEN h
    ELSE LET done == SubSeq(h, 1, i - 1)
             val  == h[i]
             ins  == IF sort_angle(best, val, done[1])
                     THEN << val >> \o done
                     ELSE linear_insert(best, done, val, i - 1)
         IN  insertion_sort(best, ins \o SubSeq(h, i + 1, Len(h)), i + 1)

\* std::sort( m_hull.begin( ), m_hull.end( ), sort_angle(*best) )
sort_hull(h) == insertion_sort(h[find_best(h, 1, 1)], h, 2)

\* scan_step that pushes a collinear point of another length instead of
\* passing over it
scan_step_push_collinear(sorted, i, stack) ==
    LET n == Len(stack) IN
    IF n < 2 THEN [ stack |-> Append(stack, sorted[i]), i |-> i + 1 ]
    ELSE LET dir == direction(stack[n - 1], stack[n], sorted[i]) IN
         IF greater_than(dir, 0)
         THEN [ stack |-> Append(stack, sorted[i]), i |-> i + 1 ]
         ELSE IF equal(dir, 0)
         THEN IF equal(length_sq(stack[n - 1], sorted[i]),
                       length_sq(stack[n - 1], stack[n]))
              THEN [ stack |-> SubSeq(stack, 1, n - 1), i |-> i ]
              ELSE [ stack |-> Append(stack, sorted[i]), i |-> i + 1 ]
         ELSE [ stack |-> SubSeq(stack, 1, n - 1), i |-> i ]

\* scan_step that retries a point without popping the stack
scan_step_retry_no_pop(sorted, i, stack) ==
    LET n == Len(stack) IN
    IF n < 2 THEN [ stack |-> Append(stack, sorted[i]), i |-> i + 1 ]
    ELSE LET dir == direction(stack[n - 1], stack[n], sorted[i]) IN
         IF greater_than(dir, 0)
         THEN [ stack |-> Append(stack, sorted[i]), i |-> i + 1 ]
         ELSE IF equal(dir, 0)
         THEN IF equal(length_sq(stack[n - 1], sorted[i]),
                       length_sq(stack[n - 1], stack[n]))
              THEN [ stack |-> stack, i |-> i ]
              ELSE [ stack |-> stack, i |-> i + 1 ]
         ELSE [ stack |-> stack, i |-> i ]

\* one pass of the body of the scan loop: itr is at sorted[i]; the result
\* is the stack and the index the loop continues with
scan_step(sorted, i, stack) ==
    LET n == Len(stack) IN
    IF n < 2 THEN [ stack |-> Append(stack, sorted[i]), i |-> i + 1 ]
    ELSE LET dir == direction(stack[n - 1], stack[n], sorted[i]) IN
         IF greater_than(dir, 0)
         THEN [ stack |-> Append(stack, sorted[i]), i |-> i + 1 ]
         ELSE IF equal(dir, 0)
         THEN IF equal(length_sq(stack[n - 1], sorted[i]),
                       length_sq(stack[n - 1], stack[n]))
              THEN [ stack |-> SubSeq(stack, 1, n - 1), i |-> i ]
              ELSE [ stack |-> stack, i |-> i + 1 ]
         ELSE [ stack |-> SubSeq(stack, 1, n - 1), i |-> i ]

\* the scan loop, from itr = m_hull.begin( ) + 2 to m_hull.end( )
RECURSIVE scan(_, _, _)
scan(sorted, i, stack) ==
    IF i > Len(sorted) THEN stack
    ELSE LET s == scan_step(sorted, i, stack) IN scan(sorted, s.i, s.stack)

\* polygon2::graham_hull: the new value of m_hull
graham_hull(h) ==
    IF Len(h) < 3 THEN h
    ELSE LET sorted == sort_hull(h)
         IN  scan(sorted, 3, << sorted[1], sorted[2] >>)

\* calc_bounding_box, the loop over the elements i..Len(h)
RECURSIVE bbox_loop(_, _, _)
bbox_loop(h, i, acc) ==
    IF i > Len(h) THEN acc
    ELSE LET x == h[i][1]
             y == h[i][2]
             l == IF acc.l - x > Epsilon THEN x ELSE acc.l
             r == IF ~(acc.l - x > Epsilon) /\ x - acc.r > Epsilon THEN x ELSE acc.r
             t == IF acc.t - y > Epsilon THEN y ELSE acc.t
             b == IF ~(acc.t - y > Epsilon) /\ y - acc.b > Epsilon THEN y ELSE acc.b
         IN  bbox_loop(h, i + 1, [ l |-> l, r |-> r, t |-> t, b |-> b ])

\* polygon2::calc_bounding_box on a hull with at least one element: the
\* new value of m_bounding_box
calc_bounding_box(h) ==
    LET box == bbox_loop(h, 2, [ l |-> h[1][1], r |-> h[1][1],
                                 t |-> h[1][2], b |-> h[1][2] ])
    IN  rect2(box.l, box.r, box.t, box.b)

\* the points of a call that pass `point != point2<T>::null( )`
RECURSIVE non_null(_)
non_null(points) ==
    IF points = << >> THEN << >>
    ELSE IF point_ne(Head(points), null_point)
         THEN << Head(points) >> \o non_null(Tail(points))
         ELSE non_null(Tail(points))

\* a polygon is the record of its two members; crashed tells that
\* calc_bounding_box ran on an empty m_hull: it reads *m_hull.begin( ) and
\* walks from begin( ) + 1 towards an end( ) it never meets, so the
\* process dies before m_bounding_box is assigned
Polygon(h, box, dead) == [ hull |-> h, bounding_box |-> box, crashed |-> dead ]

\* polygon2::polygon2( )
polygon2 == Polygon(<< >>, rect_null, FALSE)

\* an insertion call that keeps a bounding box it already has
finish_stale(h, box) ==
    IF h = << >> THEN Polygon(h, box, TRUE)
    ELSE IF box = rect_null THEN Polygon(h, calc_bounding_box(h), FALSE)
    ELSE Polygon(h, box, FALSE)

\* the end of every insertion call: calc_bounding_box( )
finish(h, box) ==
    IF h = << >> THEN Polygon(h, box, TRUE)
    ELSE Polygon(h, calc_bounding_box(h), FALSE)

\* polygon2::add_points( point, points... ) down to add_points( ): every
\* non-null argument is pushed, then graham_hull( ), calc_bounding_box( )
add_points(p, points) ==
    finish(graham_hull(p.hull \o non_null(points)), p.bounding_box)

\* add_points( vector ), the outer loop from j on: group j pushes the
\* elements (j-1)*100 .. 100*j-1 that exist and rebuilds the hull
RECURSIVE vector_loop(_, _, _)
vector_loop(h, points, j) ==
    IF ~(j < Len(points)) THEN h
    ELSE LET from == (j - 1) * BatchSize
             upto == IF BatchSize * j < Len(points) THEN BatchSize * j ELSE Len(points)
             grp  == SubSeq(points, from + 1, upto)
         IN  vector_loop(graham_hull(h \o non_null(grp)), points, j + 1)

\* polygon2::add_points( const std::vector<point2<T>>& )
add_points_vector(p, points) ==
    finish(vector_loop(p.hull, points, 1), p.bounding_box)

\* polygon2::operator==
polygon_eq(a, b) ==
    IF rect_ne(a.bounding_box, b.bounding_box) THEN FALSE
    ELSE IF rect_eq(a.bounding_box, rect_null) /\ rect_eq(b.bounding_box, rect_null)
         THEN TRUE
    ELSE IF rect_eq(a.bounding_box, rect_null) /\ rect_eq(b.bounding_box, rect_null)
         THEN FALSE
    ELSE IF Len(a.hull) # Len(b.hull) THEN FALSE
    ELSE \A i \in 1..Len(a.hull) : ~ point_ne(a.hull[i], b.hull[i])

\* polygon2::operator=( const polygon2<T>& ): the new value of the target
polygon_assign(a) == Polygon(a.hull, a.bounding_box, FALSE)

\* ------------------------------------------------------------- the state
this == Polygon(m_hull, m_bounding_box, crashed)
poly == Polygon(poly_hull, poly_bounding_box, FALSE)

SetThis(p) ==
    /\ m_hull' = p.hull
    /\ m_bounding_box' = p.bounding_box
    /\ crashed' = p.crashed

InitPolygon ==
    /\ m_hull = polygon2.hull
    /\ m_bounding_box = polygon2.bounding_box
    /\ crashed = FALSE
    /\ poly_hull = polygon2.hull
    /\ poly_bounding_box = polygon2.bounding_box

InitBatch == input = << >> /\ pos = 0 /\ ncalls = 0

InitPointObj == m_data = point_set_null(2)

InitRect ==
    /\ rect = rect_set_null
    /\ rect_args = << Sentinel, Sentinel, Sentinel, Sentinel >>

\* no function was called and no scan runs
InitCall == args = << >> /\ result = << >>

InitScan == scan_hull = << >> /\ scan_itr = 0 /\ scan_stack = << >>

\* ------------------------------------------- the polygon, any call order
Init == InitPolygon /\ InitBatch /\ InitPointObj /\ InitRect /\ InitCall /\ InitScan

\* a call this->add_points( point, points... ), with 1..MaxArgs arguments
AddPoints ==
    /\ ~ crashed
    /\ \E points \in ArgLists : SetThis(add_points(this, points))
    /\ UNCHANGED << otherVars, batchVars, pointVars, rectVars, callVars, scanVars >>

\* a call this->add_points( vector ), with 0..MaxArgs elements
AddPointsVector ==
    /\ ~ crashed
    /\ \E points \in Vectors : SetThis(add_points_vector(this, points))
    /\ UNCHANGED << otherVars, batchVars, pointVars, rectVars, callVars, scanVars >>

Next == AddPoints \/ AddPointsVector

Spec == Init /\ [][Next]_vars

\* ------------------------------ two polygons: poly = this, then this grows
\* poly = *this (polygon2::operator=)
Assign ==
    /\ ~ crashed
    /\ poly_hull' = polygon_assign(this).hull
    /\ poly_bounding_box' = polygon_assign(this).bounding_box
    /\ UNCHANGED << polyVars, batchVars, pointVars, rectVars, callVars, scanVars >>

NextEq == AddPoints \/ AddPointsVector \/ Assign

SpecEq == Init /\ [][NextEq]_vars

\* ----------------------- one input sequence, split into successive calls
InitInput ==
    /\ InitPolygon /\ InitPointObj /\ InitRect /\ InitCall /\ InitScan
    /\ input \in SeqsUpTo(GridPoints, MaxInput)
    /\ pos = 0
    /\ ncalls = 0

\* the next k points of input go into one call this->add_points( points... )
BatchAddPoints ==
    /\ ~ crashed
    /\ \E k \in 1..(Len(input) - pos) :
          /\ SetThis(add_points(this, SubSeq(input, pos + 1, pos + k)))
          /\ pos' = pos + k
    /\ ncalls' = ncalls + 1
    /\ UNCHANGED << input, otherVars, pointVars, rectVars, callVars, scanVars >>

\* the next k points of input go into one call this->add_points( vector )
BatchAddPointsVector ==
    /\ ~ crashed
    /\ \E k \in 1..(Len(input) - pos) :
          /\ SetThis(add_points_vector(this, SubSeq(input, pos + 1, pos + k)))
          /\ pos' = pos + k
    /\ ncalls' = ncalls + 1
    /\ UNCHANGED << input, otherVars, pointVars, rectVars, callVars, scanVars >>

NextBatch == BatchAddPoints \/ BatchAddPointsVector

SpecBatch == InitInput /\ [][NextBatch]_vars

\* ------------------------------------------------------ one point object
InitPoint ==
    /\ InitPolygon /\ InitBatch /\ InitRect /\ InitCall /\ InitScan
    /\ m_data \in { point_set_null(D) : D \in Dims }

\* point( ), the default constructor
PointDefault ==
    /\ m_data' = point_set_null(Len(m_data))
    /\ UNCHANGED << polyVars, otherVars, batchVars, rectVars, callVars, scanVars >>

\* point( x ), point( x, y ), ...: construction from 1..D raw values
PointConstruct ==
    /\ \E n \in 1..Len(m_data) : \E values \in SeqsOfLen(PointValues, n) :
          m_data' = point_base(values, Len(m_data))
    /\ UNCHANGED << polyVars, otherVars, batchVars, rectVars, callVars, scanVars >>

\* set( i, value ), i < D
PointSet ==
    /\ \E i \in 1..Len(m_data), value \in PointValues :
          m_data' = set(m_data, i, value)
    /\ UNCHANGED << polyVars, otherVars, batchVars, rectVars, callVars, scanVars >>

\* x( v ), y( v ), z( v ), w( v ): the setter of coordinate i exists for i <= D
PointSetNamed ==
    /\ \E i \in 1..Len(m_data), value \in PointValues :
          m_data' = set(m_data, i, value)
    /\ UNCHANGED << polyVars, otherVars, batchVars, rectVars, callVars, scanVars >>

\* *this = pt, copy or move, from any point object pt of the same type
PointAssign ==
    /\ \E pt \in SeqsOfLen(PointValues, Len(m_data)) :
          m_data' = point_assign(pt)
    /\ UNCHANGED << polyVars, otherVars, batchVars, rectVars, callVars, scanVars >>

NextPoint ==
    PointDefault \/ PointConstruct \/ PointSet \/ PointSetNamed \/ PointAssign

SpecPoint == InitPoint /\ [][NextPoint]_vars

\* ------------------------------------------------------- one rect object
\* rect2( left, right, top, bottom )
RectConstruct ==
    /\ \E left \in PointValues, right \in PointValues,
          top \in PointValues, bottom \in PointValues :
          /\ rect' = rect2(left, right, top, bottom)
          /\ rect_args' = << left, right, top, bottom >>
    /\ UNCHANGED << polyVars, otherVars, batchVars, pointVars, callVars, scanVars >>

NextRect == RectConstruct

SpecRect == Init /\ [][NextRect]_vars

\* ------------------------------------------------ two points compared
\* the points of a category and a dimension that a program can hold
PointsOf(category, D) == SeqsOfLen(CoordValues(category), D)

InitPointEq ==
    /\ InitPolygon /\ InitBatch /\ InitPointObj /\ InitRect /\ InitScan
    /\ \E c \in Categories, D \in Dims :
          \E a \in PointsOf(c, D), b \in PointsOf(c, D) : args = << c, a, b >>
    /\ result = << >>

\* a == b
CallPointEq ==
    /\ result = << >>
    /\ result' = << point_eq_of(args[1], args[2], args[3]) >>
    /\ UNCHANGED << polyVars, otherVars, batchVars, pointVars, rectVars, args, scanVars >>

NextPointEq == CallPointEq

SpecPointEq == InitPointEq /\ [][NextPointEq]_vars

\* ------------------------------------ the scan of graham_hull, step by step
\* no call of graham_hull is running
InitScanCall ==
    /\ InitPolygon /\ InitBatch /\ InitPointObj /\ InitRect /\ InitScan
    /\ InitCall

\* a call of graham_hull that reaches the scan: args = << m_hull >> is its
\* working set (at least 3 elements); the anchor search, std::sort and the
\* two push_back calls before the loop
ScanBegin ==
    /\ scan_itr = 0 /\ result = << >>
    /\ \E h \in SeqsUpTo(GridPoints, MaxScan) : Len(h) >= 3 /\ args' = << h >>
    /\ result' = << >>
    /\ scan_hull' = sort_hull(args'[1])
    /\ scan_stack' = << scan_hull'[1], scan_hull'[2] >>
    /\ scan_itr' = 3
    /\ UNCHANGED << polyVars, otherVars, batchVars, pointVars, rectVars >>

\* one pass of the loop body with its ++itr, while itr != m_hull.end( )
ScanStep ==
    /\ scan_itr >= 3 /\ scan_itr <= Len(scan_hull)
    /\ LET s == scan_step(scan_hull, scan_itr, scan_stack)
       IN  scan_stack' = s.stack /\ scan_itr' = s.i
    /\ UNCHANGED << polyVars, otherVars, batchVars, pointVars, rectVars, callVars,
                    scan_hull >>

\* itr == m_hull.end( ): m_hull = stack, and the call returns
ScanEnd ==
    /\ scan_itr > Len(scan_hull)
    /\ result' = << scan_stack >>
    /\ scan_itr' = 0
    /\ UNCHANGED << polyVars, otherVars, batchVars, pointVars, rectVars, args,
                    scan_hull, scan_stack >>

NextScan == ScanBegin \/ ScanStep \/ ScanEnd

SpecScan == InitScanCall /\ [][NextScan]_vars

\* the loop runs in one thread: once the scan has begun, a pass of the loop
\* or the return that can be taken is taken
FairSpecScan == SpecScan /\ WF_vars(ScanStep \/ ScanEnd)

\* ------------------------------------- the comparator of the angular sort
\* args = << m_hull, i, j >>: the working set of a graham_hull call and
\* the positions of the two elements that std::sort hands to the comparator
InitComp ==
    /\ InitPolygon /\ InitBatch /\ InitPointObj /\ InitRect /\ InitScan
    /\ \E h \in SeqsUpTo(GridPoints, MaxInput) \ { << >> } :
          \E i \in 1..Len(h), j \in 1..Len(h) : args = << h, i, j >>
    /\ result = << >>

\* sort_angle( *best )( l, r ) and sort_angle( *best )( r, l )
CallComp ==
    /\ result = << >>
    /\ LET h    == args[1]
           best == h[find_best(h, 1, 1)]
           l    == h[args[2]]
           r    == h[args[3]]
       IN  result' = << sort_angle(best, l, r), sort_angle(best, r, l) >>
    /\ UNCHANGED << polyVars, otherVars, batchVars, pointVars, rectVars, args, scanVars >>

NextComp == CallComp

SpecComp == InitComp /\ [][NextComp]_vars

\* ------------------------------------------------- the 3D cross product
InitCross ==
    /\ InitPolygon /\ InitBatch /\ InitPointObj /\ InitRect /\ InitScan
    /\ \E a \in SeqsOfLen(Coords, 3), b \in SeqsOfLen(Coords, 3) : args = << a, b >>
    /\ result = << >>

\* a.cross( b ) for two point3i
CallCross ==
    /\ result = << >>
    /\ result' = << cross(args[1], args[2]) >>
    /\ UNCHANGED << polyVars, otherVars, batchVars, pointVars, rectVars, args, scanVars >>

NextCross == CallCross

SpecCross == InitCross /\ [][NextCross]_vars

\* ------------------------------------------- the comparison predicates
InitMath ==
    /\ InitPolygon /\ InitBatch /\ InitPointObj /\ InitRect /\ InitScan
    /\ args \in { << c, lhs, rhs >> : c \in Categories,
                                       lhs \in Values("accurate") \cup Values("inaccurate"),
                                       rhs \in Values("accurate") \cup Values("inaccurate") }
    /\ args[2] \in Values(args[1]) /\ args[3] \in Values(args[1])
    /\ result = << >>

\* the six predicates are called with ( lhs, rhs ) of one type T
CallPredicates ==
    /\ result = << >>
    /\ result' = << [ equal           |-> equal_of(args[1], args[2], args[3]),
                      less_than       |-> less_than_of(args[1], args[2], args[3]),
                      not_equal       |-> not_equal(args[2], args[3]),
                      greater_than    |-> greater_than(args[2], args[3]),
                      less_than_eq    |-> less_than_eq(args[2], args[3]),
                      greater_than_eq |-> greater_than_eq(args[2], args[3]) ] >>
    /\ UNCHANGED << polyVars, otherVars, batchVars, pointVars, rectVars, args, scanVars >>

NextMath == CallPredicates

SpecMath == InitMath /\ [][NextMath]_vars

\* ================================================================ claims
\* plain geometry used to state the claims
Cross(a, b, c) == (b[1] - a[1]) * (c[2] - a[2]) - (b[2] - a[2]) * (c[1] - a[1])

Min(a, b) == IF a < b THEN a ELSE b
Max(a, b) == IF a < b THEN b ELSE a

Distinct(s) == \A i, j \in 1..Len(s) : i # j => s[i] # s[j]

AllCollinear(s) == \A i, j, k \in 1..Len(s) : Cross(s[i], s[j], s[k]) = 0

OnSegment(a, b, p) ==
    /\ Cross(a, b, p) = 0
    /\ Min(a[1], b[1]) <= p[1] /\ p[1] <= Max(a[1], b[1])
    /\ Min(a[2], b[2]) <= p[2] /\ p[2] <= Max(a[2], b[2])

\* the vertex after h[i], cyclically
Succ(h, i) == h[(i % Len(h)) + 1]

\* every cyclically consecutive triple of h turns strictly left
StrictlyConvex(h) ==
    \A i \in 1..Len(h) : Cross(h[i], Succ(h, i), Succ(h, (i % Len(h)) + 1)) > 0

\* p lies inside or on the polygon with the vertices h: the point, the
\* segment, or the counter-clockwise convex polygon they form
InsideOrOn(h, p) ==
    IF Len(h) = 0 THEN FALSE
    ELSE IF Len(h) = 1 THEN p = h[1]
    ELSE IF Len(h) = 2 THEN OnSegment(h[1], h[2], p)
    ELSE \A i \in 1..Len(h) : Cross(h[i], Succ(h, i), p) >= 0

\* the input was inserted whole by one call into the empty polygon
OneCallDone == ncalls = 1 /\ pos = Len(input) /\ ~ crashed

\* C1: a set of at least 3 points, not all collinear, inserted into an
\* empty polygon by one call: every point of the set lies inside or on
\* the polygon of the retained hull vertices
C1_HullContainsInput ==
    ( OneCallDone /\ Len(input) >= 3 /\ Distinct(input) /\ ~ AllCollinear(input) )
        => \A i \in 1..Len(input) : InsideOrOn(m_hull, input[i])

\* C2: a polygon that retains fewer than 3 hull vertices has the null
\* rect as its bounding box
C2_FewVerticesNullBox ==
    ( ~ crashed /\ Len(m_hull) < 3 ) => m_bounding_box = rect_null

\* C3: the hull vertices of a polygon with at least 3 of them turn
\* strictly left at every cyclically consecutive triple
C3_StrictlyConvex ==
    ( ~ crashed /\ Len(m_hull) >= 3 ) => StrictlyConvex(m_hull)

\* the corners of the whole grid were inserted and are the hull
C3_Witness ==
    /\ ~ crashed
    /\ m_hull = << << 0, 0 >>, << MaxCoord, 0 >>,
                   << MaxCoord, MaxCoord >>, << 0, MaxCoord >> >>

\* C4: a set of 3 or more points on one straight line, inserted into an
\* empty polygon, leaves fewer than 3 hull vertices and the null rect as
\* bounding box
C4_CollinearIsNull ==
    ( OneCallDone /\ Len(input) >= 3 /\ Distinct(input) /\ AllCollinear(input) )
        => ( Len(m_hull) < 3 /\ m_bounding_box = rect_null )

\* the least and the greatest coordinate c (1 for x, 2 for y) of h
MinCoord(h, c) == CHOOSE v \in { h[i][c] : i \in 1..Len(h) } :
                      \A i \in 1..Len(h) : v <= h[i][c]
MaxCoordOf(h, c) == CHOOSE v \in { h[i][c] : i \in 1..Len(h) } :
                      \A i \in 1..Len(h) : v >= h[i][c]

\* C5: with at least 3 hull vertices the bounding box is the tight box of
\* the current hull: left = min x, right = max x, top = min y,
\* bottom = max y
C5_TightBox ==
    ( ~ crashed /\ Len(m_hull) >= 3 ) =>
        /\ m_bounding_box.l = MinCoord(m_hull, 1)
        /\ m_bounding_box.r = MaxCoordOf(m_hull, 1)
        /\ m_bounding_box.t = MinCoord(m_hull, 2)
        /\ m_bounding_box.b = MaxCoordOf(m_hull, 2)

\* a triangle that does not touch the left edge of the grid has its box
C5_Witness ==
    /\ ~ crashed
    /\ Len(m_hull) = 3
    /\ m_bounding_box = [ l |-> 1, r |-> MaxCoord, t |-> 0, b |-> MaxCoord ]

\* C6: however the input is split into successive calls, once all of it
\* was passed the polygon is the one that a single call with the whole
\* input builds from the empty polygon
C6_SplitEqualsOneCall ==
    ( pos = Len(input) /\ ncalls >= 1 /\ ~ crashed )
        => this = add_points(polygon2, input)

\* C7: the hull builder maps the retained hull vertices to themselves, in
\* the same order, and so does a new polygon built from them
C7_Idempotent ==
    ~ crashed =>
        /\ graham_hull(m_hull) = m_hull
        /\ ( m_hull # << >> => add_points(polygon2, m_hull).hull = m_hull )

\* a hexagon was built, and building it again from its vertices gives it
C7_Witness ==
    /\ ~ crashed
    /\ Len(m_hull) = 6
    /\ graham_hull(m_hull) = m_hull

\* C8: a point with a sentinel coordinate has only sentinel coordinates
C8_NullCollapsed ==
    ( \E i \in DOMAIN m_data : m_data[i] = Sentinel )
        => \A i \in DOMAIN m_data : m_data[i] = Sentinel

\* an argument is the sentinel, or left > right, or top > bottom
RectArgsNull ==
    \/ \E i \in 1..4 : rect_args[i] = Sentinel
    \/ rect_args[1] > rect_args[2]
    \/ rect_args[3] > rect_args[4]

\* C9: rect2( left, right, top, bottom ) is null exactly when an argument
\* is the sentinel, or left > right, or top > bottom; otherwise the four
\* fields are the arguments
C9_RectNullIff ==
    IF RectArgsNull
    THEN rect = rect_set_null
    ELSE rect = [ l |-> rect_args[1], r |-> rect_args[2],
                  t |-> rect_args[3], b |-> rect_args[4] ]

\* C10: two polygons with fewer than 3 hull vertices each are equal under
\* operator==, and operator== is symmetric
C10_NullPolygonsEqual ==
    ~ crashed =>
        /\ ( Len(m_hull) < 3 /\ Len(poly_hull) < 3 ) => polygon_eq(this, poly)
        /\ polygon_eq(this, poly) <=> polygon_eq(poly, this)

\* the point is the null point of its type
IsNullPoint(category, a) == a = null_of(category, Len(a))

\* the point has no invalid coordinate
IsOrdinaryPoint(category, a) == \A i \in DOMAIN a : a[i] # invalid(category)

\* C11: point_base::operator== is true for two null points and false for
\* a null point and a point without invalid coordinates, in both orders
C11_NullPointEquality ==
    result # << >> =>
        LET c == args[1]
            a == args[2]
            b == args[3]
        IN  /\ ( IsNullPoint(c, a) /\ IsNullPoint(c, b) ) => result[1]
            /\ ( IsNullPoint(c, a) /\ IsOrdinaryPoint(c, b) ) => ~ result[1]
            /\ ( IsOrdinaryPoint(c, a) /\ IsNullPoint(c, b) ) => ~ result[1]

\* C12: the derived predicates agree with the base predicates of the same
\* type: not_equal = not equal, greater_than(a,b) = less_than(b,a),
\* less_than_eq(a,b) = not less_than(b,a), greater_than_eq(a,b) = not
\* less_than(a,b)
C12_DerivedAgree ==
    result # << >> =>
        /\ result[1].not_equal = ~ result[1].equal
        /\ result[1].greater_than = less_than_of(args[1], args[3], args[2])
        /\ result[1].less_than_eq = ~ less_than_of(args[1], args[3], args[2])
        /\ result[1].greater_than_eq = ~ result[1].less_than

\* C13: exactly one of equal(a,b), less_than(a,b), less_than(b,a) holds
C13_Trichotomy ==
    result # << >> =>
        LET e == result[1].equal
            l == result[1].less_than
            g == less_than_of(args[1], args[3], args[2])
        IN  /\ e \/ l \/ g
            /\ ~ (e /\ l) /\ ~ (e /\ g) /\ ~ (l /\ g)

\* C17: a.cross( b ) is (ay*bz - az*by, az*bx - ax*bz, ax*by - ay*bx) and
\* is orthogonal to a and to b
C17_CrossProduct ==
    result # << >> =>
        LET a == args[1]
            b == args[2]
        IN  /\ result[1] = << a[2] * b[3] - a[3] * b[2],
                              a[3] * b[1] - a[1] * b[3],
                              a[1] * b[2] - a[2] * b[1] >>
            /\ dot(result[1], a) = 0
            /\ dot(result[1], b) = 0

\* the anchor and the two points of the comparator call
CompBest == args[1][find_best(args[1], 1, 1)]
CompL == args[1][args[2]]
CompR == args[1][args[3]]

\* C15: of two points other than the anchor with the same polar angle
\* about it, the one farther from the anchor is ordered first
C15_FartherFirst ==
    ( /\ result # << >>
      /\ CompL # CompBest /\ CompR # CompBest
      /\ angle_cmp(CompBest, CompL, CompR) = 0
      /\ length_sq(CompBest, CompL) > length_sq(CompBest, CompR) )
        => ( result[1] /\ ~ result[2] )

\* C18: comp( p, p ) is false, and comp( p, q ) and comp( q, p ) are never
\* both true
C18_StrictWeakOrdering ==
    result # << >> =>
        /\ CompL = CompR => ~ result[1]
        /\ ~ ( result[1] /\ result[2] )

\* the scan loop is at a point: itr != m_hull.end( )
ScanAtPoint == scan_itr >= 3 /\ scan_itr <= Len(scan_hull)

\* the point the scan is at is collinear with the top two stack elements
\* and its distance from the second-from-top differs from the top's
CollinearUnequal ==
    /\ ScanAtPoint /\ Len(scan_stack) >= 2
    /\ LET n == Len(scan_stack)
           p == scan_hull[scan_itr]
       IN  /\ Cross(scan_stack[n - 1], scan_stack[n], p) = 0
           /\ length_sq(scan_stack[n - 1], p)
                  # length_sq(scan_stack[n - 1], scan_stack[n])

\* C14: a point collinear with the top two stack elements whose two lengths
\* differ is pushed, and the scan never moves past a point without pushing
\* it
C14_CollinearUnequalPushed ==
    [][ /\ CollinearUnequal
           => scan_stack' = Append(scan_stack, scan_hull[scan_itr])
        /\ ( ScanAtPoint /\ scan_itr' = scan_itr + 1 )
           => scan_stack' = Append(scan_stack, scan_hull[scan_itr]) ]_vars

\* C16: the scan terminates: a retry of a point shortens the stack, the
\* stack never has fewer than one element, and the loop reaches the end
C16_ScanTerminates ==
    /\ [] ( scan_itr >= 3 => Len(scan_stack) >= 1 )
    /\ [][ ( ScanAtPoint /\ scan_itr' = scan_itr )
             => Len(scan_stack') < Len(scan_stack) ]_vars
    /\ ( scan_itr >= 3 ) ~> ( scan_itr = 0 /\ result # << >> )

\* a point is about to be retried on a stack popped down to one element
C16_Witness == ScanAtPoint /\ Len(scan_stack) = 1

\* C19: once the polygon has at least 3 hull vertices, every later insertion
\* call leaves it with at least 3 hull vertices and a non-null bounding box
C19_ValidityMonotone ==
    [][ Len(m_hull) >= 3
          => ( Len(m_hull') >= 3 /\ ~ rect_is_null(m_bounding_box') ) ]_vars

====
